---- MODULE Spec2Model ----
(***************************************************************************)
(* A model of DaemonRunner (src/daemonrunner.py): the start / stop /       *)
(* restart / status actions of any number of controller processes that    *)
(* share one PID lock file.                                                *)
(*                                                                         *)
(* Every access to the lock file and every os.kill is one step, so that    *)
(* the steps of different processes interleave the way system calls do.    *)
(* The lock file object is daemon.pidfile.TimeoutPIDLockFile, made at      *)
(* daemonrunner.py:215; its operations follow the lockfile library:        *)
(*   read_pid   the integer on the file's first line, None when the file   *)
(*              is missing or the line is no integer;                      *)
(*   is_locked  os.path.exists(path);                                      *)
(*   break_lock remove the file if it exists;                              *)
(*   acquire    os.open(O_CREAT | O_EXCL), then write the pid; retried     *)
(*              until the timeout, then LockTimeout;                       *)
(*   release    remove the file iff it exists and records the caller.      *)
(* DaemonContext.open() detaches (fork), installs the SIGTERM handler and  *)
(* then acquires the lock file; its close(), run at exit once open() has   *)
(* returned, releases it.                                                  *)
(*                                                                         *)
(* Left out: pids are not given out again after a process has ended; the   *)
(* file operations do not fail for lack of permission; release is one      *)
(* step; the callback does not return on its own; register_logger and      *)
(* files_preserve, which do not touch the lock file.                       *)
(*                                                                         *)
(* Spec is every interleaving; SpecStart has controllers that only start;  *)
(* SpecSeq runs one controller at a time.                                  *)
(***************************************************************************)
EXTENDS Integers, Sequences, FiniteSets, TLC

\* Number of controller invocations that may daemonize (each gets its own pid).
NumProcs == 2

Procs == 1..NumProcs

\* Python's None, as read_pid returns it and as the locals start out.
None == -1

\* The pid of a daemon of an earlier run that has exited: no live process has it.
OldPid == NumProcs + 1

Pids == Procs \cup {OldPid}

VARIABLES
    file,   \* the lock file, one of Files
    pc,     \* pc[p]: the position of process p in its action
    act,    \* act[p]: the subcommand p was invoked with
    priv,   \* priv[p]: p may signal the daemons (same user, or root)
    lpid,   \* lpid[p]: the local variable pid of the function p is in
    stale,  \* stale[p]: the last result of _is_pidfile_stale
    out,    \* out[p]: the messages p has written, in order
    sent,   \* sent[p]: the pids p has sent SIGTERM to, in order
    prev,   \* prev[p]: the call the controller object of p finished before this one
    exc,    \* exc[p]: the exception p's action ended with, or "none"
    term    \* the set of pids with a SIGTERM pending

vars == <<file, pc, act, priv, lpid, stale, out, sent, exc, term, prev>>

Actions == {"start", "stop", "restart", "status"}

\* The positions at which process p exists as the detached daemon with pid p.
DaemonPcs == {"d_acquire", "d_write", "callback"}

\* The lock file: whether the path exists, the process that created the file
\* now at the path, and the pid written in it (None while nothing is written).
NoFile == [exists |-> FALSE, owner |-> None, content |-> None]
EmptyFile(o) == [exists |-> TRUE, owner |-> o, content |-> None]
PidFile(n) == [exists |-> TRUE, owner |-> n, content |-> n]

Files == {NoFile} \cup {EmptyFile(n) : n \in Pids} \cup {PidFile(n) : n \in Pids}

\* True iff a process with pid n exists.
Alive(n) == n \in Procs /\ pc[n] \in DaemonPcs

---------------------------------------------------------------------------
\* The lock file operations.

read_pid(f) == IF f.exists THEN f.content ELSE None

\* An is_locked that holds only while the recorded holder is alive.
is_locked_live(f) == f.exists /\ Alive(f.content)

is_locked(f) == f.exists

break_lock(f) == NoFile

\* os.kill(n, sig) by process p: what the call returns or raises.
kill(p, n) ==
    IF n = None THEN "TypeError"
    ELSE IF ~Alive(n) THEN "ESRCH"
    ELSE IF ~priv[p] THEN "EPERM"
    ELSE "ok"

\* What _emit_message writes: the text, the pid formatted into it, the stream.
Msg(text, n, stream) == <<text, n, stream>>

\* The call a controller object finished last: its action and the exception
\* it ended with; NoPrev for a fresh object.
NoPrev == <<"none", "none">>

\* An _emit_message that a restart ended by DaemonRunnerStopError leaves muted.
EmitMutedAfterFailedRestart(p, m) ==
    out' = IF prev[p] = <<"restart", "DaemonRunnerStopError">>
           THEN out
           ELSE [out EXCEPT ![p] = Append(@, m)]

Emit(p, m) == out' = [out EXCEPT ![p] = Append(@, m)]

\* The daemon process p ends: its pid is gone (and is not given out again),
\* and with it its pending signals and its locals; what it wrote remains.
Exit(p) ==
    /\ pc' = [pc EXCEPT ![p] = "dead"]
    /\ term' = term \ {p}
    /\ lpid' = [lpid EXCEPT ![p] = None]
    /\ stale' = [stale EXCEPT ![p] = FALSE]

\* Where control goes when _stop returns: back into _restart, or to the caller.
AfterStop(p) == IF act[p] = "restart" THEN "r_break" ELSE "done"

\* The first position of each subcommand (the functions _init_argparser binds).
Entry(a) ==
    CASE a = "start" -> "s_read"
      [] a = "stop" -> "p_read0"
      [] a = "restart" -> "p_read0"
      [] a = "status" -> "u_read"

---------------------------------------------------------------------------
\* The state before any controller runs. The lock file is the only durable
\* state: an earlier run leaves it absent (released), empty (its daemon died
\* between creating the file and writing the pid) or holding the pid of a
\* daemon that has exited without releasing it.
Init ==
    /\ file \in {NoFile, EmptyFile(OldPid), PidFile(OldPid)}
    /\ pc = [p \in Procs |-> "idle"]
    /\ act = [p \in Procs |-> "start"]
    /\ priv = [p \in Procs |-> TRUE]
    /\ lpid = [p \in Procs |-> None]
    /\ stale = [p \in Procs |-> FALSE]
    /\ out = [p \in Procs |-> <<>>]
    /\ sent = [p \in Procs |-> <<>>]
    /\ exc = [p \in Procs |-> "none"]
    /\ term = {}
    /\ prev = [p \in Procs |-> NoPrev]

\* parse_args_and_run: a controller process is started with one subcommand.
Invoke(p, a, pr) ==
    /\ pc[p] = "idle"
    /\ act' = [act EXCEPT ![p] = a]
    /\ priv' = [priv EXCEPT ![p] = pr]
    /\ pc' = [pc EXCEPT ![p] = Entry(a)]
    /\ UNCHANGED <<file, lpid, stale, out, sent, exc, term>>
    /\ UNCHANGED prev

\* The controller process has exited; the next invocation starts afresh.
Return(p) ==
    /\ pc[p] = "done"
    /\ pc' = [pc EXCEPT ![p] = "idle"]
    /\ act' = [act EXCEPT ![p] = "start"]
    /\ priv' = [priv EXCEPT ![p] = TRUE]
    /\ lpid' = [lpid EXCEPT ![p] = None]
    /\ stale' = [stale EXCEPT ![p] = FALSE]
    /\ out' = [out EXCEPT ![p] = <<>>]
    /\ sent' = [sent EXCEPT ![p] = <<>>]
    /\ exc' = [exc EXCEPT ![p] = "none"]
    /\ prev' = [prev EXCEPT ![p] = NoPrev]
    /\ UNCHANGED <<file, term>>

\* The embedding application calls another action on the same DaemonRunner
\* object, after the previous one returned or its exception was caught. The
\* object keeps nothing from one call to the next but the pidfile and the
\* callback; the locals and what was written belong to the finished call.
Reuse(p, a) ==
    /\ pc[p] = "done"
    /\ prev' = [prev EXCEPT ![p] = <<act[p], exc[p]>>]
    /\ act' = [act EXCEPT ![p] = a]
    /\ pc' = [pc EXCEPT ![p] = Entry(a)]
    /\ lpid' = [lpid EXCEPT ![p] = None]
    /\ stale' = [stale EXCEPT ![p] = FALSE]
    /\ out' = [out EXCEPT ![p] = <<>>]
    /\ sent' = [sent EXCEPT ![p] = <<>>]
    /\ exc' = [exc EXCEPT ![p] = "none"]
    /\ UNCHANGED <<file, priv, term>>

---------------------------------------------------------------------------
\* _is_pidfile_stale, as _start (at = "s_read") and _stop (at = "p_read")
\* call it.

\* A probe that takes any failure of os.kill, not only ESRCH, for staleness.
StaleKillAnyError(p, at, onTrue, onFalse) ==
    /\ pc[p] = at
    /\ stale' = [stale EXCEPT ![p] = (kill(p, lpid[p]) # "ok")]
    /\ pc' = [pc EXCEPT ![p] = IF kill(p, lpid[p]) # "ok" THEN onTrue ELSE onFalse]
    /\ UNCHANGED <<file, act, priv, lpid, out, sent, exc, term>>
    /\ UNCHANGED prev

\* pid = self.pidfile.read_pid(); result stays False when pid is None.
StaleRead(p, at, onKill, onFalse) ==
    /\ pc[p] = at
    /\ lpid' = [lpid EXCEPT ![p] = read_pid(file)]
    /\ stale' = [stale EXCEPT ![p] = FALSE]
    /\ pc' = [pc EXCEPT ![p] = IF read_pid(file) = None THEN onFalse ELSE onKill]
    /\ UNCHANGED <<file, act, priv, out, sent, exc, term>>
    /\ UNCHANGED prev

\* os.kill(pid, signal.SIG_DFL): signal 0, stale iff it fails with ESRCH.
StaleKill(p, at, onTrue, onFalse) ==
    /\ pc[p] = at
    /\ stale' = [stale EXCEPT ![p] = (kill(p, lpid[p]) = "ESRCH")]
    /\ pc' = [pc EXCEPT ![p] = IF kill(p, lpid[p]) = "ESRCH" THEN onTrue ELSE onFalse]
    /\ UNCHANGED <<file, act, priv, lpid, out, sent, exc, term>>
    /\ UNCHANGED prev

---------------------------------------------------------------------------
\* _start

\* A probe that takes any failure of os.kill, not only ESRCH, for staleness.
StartStaleKillAnyError(p) ==
    /\ pc[p] = "s_kill"
    /\ stale' = [stale EXCEPT ![p] = (kill(p, lpid[p]) # "ok")]
    /\ pc' = [pc EXCEPT ![p] = IF kill(p, lpid[p]) # "ok" THEN "s_break" ELSE "s_islocked"]
    /\ UNCHANGED <<file, act, priv, lpid, out, sent, exc, term>>
    /\ UNCHANGED prev

StartStaleRead(p) == StaleRead(p, "s_read", "s_kill", "s_islocked")

StartStaleKill(p) == StaleKill(p, "s_kill", "s_break", "s_islocked")

\* A _start that finds the lock stale and does not break it.
StartBreakKeeps(p) ==
    /\ pc[p] = "s_break"
    /\ pc' = [pc EXCEPT ![p] = "s_islocked"]
    /\ UNCHANGED <<file, act, priv, lpid, stale, out, sent, exc, term>>
    /\ UNCHANGED prev

\* if self._is_pidfile_stale(): self.pidfile.break_lock()
StartBreak(p) ==
    /\ pc[p] = "s_break"
    /\ file' = break_lock(file)
    /\ pc' = [pc EXCEPT ![p] = "s_islocked"]
    /\ UNCHANGED <<act, priv, lpid, stale, out, sent, exc, term>>
    /\ UNCHANGED prev

\* if self.pidfile.is_locked(): ... else: emit 'Starting'
StartIsLocked(p) ==
    /\ pc[p] = "s_islocked"
    /\ IF is_locked(file)
       THEN /\ pc' = [pc EXCEPT ![p] = "s_msg"]
            /\ UNCHANGED out
       ELSE /\ pc' = [pc EXCEPT ![p] = "s_open"]
            /\ Emit(p, Msg("Starting", None, "stdout"))
    /\ UNCHANGED <<file, act, priv, lpid, stale, sent, exc, term>>
    /\ UNCHANGED prev

\* pid = self.pidfile.read_pid(); emit 'Already running with pid: {pid}'
StartAlreadyRunning(p) ==
    /\ pc[p] = "s_msg"
    /\ lpid' = [lpid EXCEPT ![p] = read_pid(file)]
    /\ Emit(p, Msg("Already running with pid", read_pid(file), "stderr"))
    /\ pc' = [pc EXCEPT ![p] = "done"]
    /\ UNCHANGED <<file, act, priv, stale, sent, exc, term>>
    /\ UNCHANGED prev

\* self.daemon_context.open(), first half: the process detaches and installs
\* its signal handlers; from here on it is the daemon process, with pid p,
\* which signals nobody (its priv is of no further use).
StartOpen(p) ==
    /\ pc[p] = "s_open"
    /\ pc' = [pc EXCEPT ![p] = "d_acquire"]
    /\ priv' = [priv EXCEPT ![p] = TRUE]
    /\ UNCHANGED <<file, act, lpid, stale, out, sent, exc, term>>
    /\ UNCHANGED prev

\* open(), second half: pidfile.acquire() creates the file with O_EXCL ...
Acquire(p) ==
    /\ pc[p] = "d_acquire"
    /\ ~file.exists
    /\ file' = EmptyFile(p)
    /\ pc' = [pc EXCEPT ![p] = "d_write"]
    /\ UNCHANGED <<act, priv, lpid, stale, out, sent, exc, term>>
    /\ UNCHANGED prev

\* ... and writes its pid into the file it created, which is the one at the
\* path unless that was removed meanwhile; open() returns, self.callback() runs.
AcquireWrite(p) ==
    /\ pc[p] = "d_write"
    /\ file' = IF file.exists /\ file.owner = p THEN PidFile(p) ELSE file
    /\ pc' = [pc EXCEPT ![p] = "callback"]
    /\ UNCHANGED <<act, priv, lpid, stale, out, sent, exc, term>>
    /\ UNCHANGED prev

\* An open() whose LockTimeout is swallowed: the callback runs without the lock.
AcquireTimeoutProceeds(p) ==
    /\ pc[p] = "d_acquire"
    /\ file.exists
    /\ pc' = [pc EXCEPT ![p] = "callback"]
    /\ UNCHANGED <<file, act, priv, lpid, stale, out, sent, exc, term>>
    /\ UNCHANGED prev

\* The file exists for longer than acquire_timeout: LockTimeout ends the process.
AcquireTimeout(p) ==
    /\ pc[p] = "d_acquire"
    /\ file.exists
    /\ exc' = [exc EXCEPT ![p] = "LockTimeout"]
    /\ Exit(p)
    /\ UNCHANGED <<file, act, priv, out, sent>>
    /\ UNCHANGED prev

---------------------------------------------------------------------------
\* _stop

\* A _stop that removes the lock file when it holds no pid.
StopReadCleans(p) ==
    /\ pc[p] = "p_read0"
    /\ IF read_pid(file) = None
       THEN /\ Emit(p, Msg("Not running", None, "stderr"))
            /\ file' = break_lock(file)
            /\ pc' = [pc EXCEPT ![p] = AfterStop(p)]
       ELSE /\ pc' = [pc EXCEPT ![p] = "p_read"]
            /\ UNCHANGED <<out, file>>
    /\ UNCHANGED <<act, priv, lpid, stale, sent, exc, term>>
    /\ UNCHANGED prev

\* if self.pidfile.read_pid() is None: emit 'Not running'; return
StopRead(p) ==
    /\ pc[p] = "p_read0"
    /\ IF read_pid(file) = None
       THEN /\ Emit(p, Msg("Not running", None, "stderr"))
            /\ pc' = [pc EXCEPT ![p] = AfterStop(p)]
       ELSE /\ pc' = [pc EXCEPT ![p] = "p_read"]
            /\ UNCHANGED out
    /\ UNCHANGED <<file, act, priv, lpid, stale, sent, exc, term>>
    /\ UNCHANGED prev

StopStaleRead(p) == StaleRead(p, "p_read", "p_kill", "t_read")

StopStaleKill(p) == StaleKill(p, "p_kill", "p_break", "t_read")

\* A _stop that finds the lock stale and returns without breaking it.
StopBreakKeeps(p) ==
    /\ pc[p] = "p_break"
    /\ pc' = [pc EXCEPT ![p] = AfterStop(p)]
    /\ UNCHANGED <<file, act, priv, lpid, stale, out, sent, exc, term>>
    /\ UNCHANGED prev

\* if self._is_pidfile_stale(): self.pidfile.break_lock()
StopBreak(p) ==
    /\ pc[p] = "p_break"
    /\ file' = break_lock(file)
    /\ pc' = [pc EXCEPT ![p] = AfterStop(p)]
    /\ UNCHANGED <<act, priv, lpid, stale, out, sent, exc, term>>
    /\ UNCHANGED prev

\* _terminate_daemon_process: pid = self.pidfile.read_pid()
TerminateRead(p) ==
    /\ pc[p] = "t_read"
    /\ lpid' = [lpid EXCEPT ![p] = read_pid(file)]
    /\ pc' = [pc EXCEPT ![p] = "t_kill"]
    /\ UNCHANGED <<file, act, priv, stale, out, sent, exc, term>>
    /\ UNCHANGED prev

\* A terminator whose failure _restart swallows, going on to break_lock.
TerminateKillRestartGoesOn(p) ==
    /\ pc[p] = "t_kill"
    /\ CASE kill(p, lpid[p]) = "ok" ->
              /\ term' = term \cup {lpid[p]}
              /\ sent' = [sent EXCEPT ![p] = Append(@, lpid[p])]
              /\ Emit(p, Msg("Stopped", None, "stdout"))
              /\ pc' = [pc EXCEPT ![p] = AfterStop(p)]
              /\ UNCHANGED exc
         [] kill(p, lpid[p]) \in {"ESRCH", "EPERM"} ->
              /\ exc' = [exc EXCEPT ![p] =
                            IF act[p] = "restart" THEN "none" ELSE "DaemonRunnerStopError"]
              /\ pc' = [pc EXCEPT ![p] = AfterStop(p)]
              /\ UNCHANGED <<term, sent, out>>
         [] kill(p, lpid[p]) = "TypeError" ->
              /\ exc' = [exc EXCEPT ![p] = "TypeError"]
              /\ pc' = [pc EXCEPT ![p] = "done"]
              /\ UNCHANGED <<term, sent, out>>
    /\ UNCHANGED <<file, act, priv, lpid, stale>>
    /\ UNCHANGED prev

\* A terminator that removes the lock file once the signal is delivered.
TerminateKillBreaks(p) ==
    /\ pc[p] = "t_kill"
    /\ CASE kill(p, lpid[p]) = "ok" ->
              /\ term' = term \cup {lpid[p]}
              /\ sent' = [sent EXCEPT ![p] = Append(@, lpid[p])]
              /\ Emit(p, Msg("Stopped", None, "stdout"))
              /\ file' = break_lock(file)
              /\ pc' = [pc EXCEPT ![p] = AfterStop(p)]
              /\ UNCHANGED exc
         [] kill(p, lpid[p]) \in {"ESRCH", "EPERM"} ->
              /\ exc' = [exc EXCEPT ![p] = "DaemonRunnerStopError"]
              /\ pc' = [pc EXCEPT ![p] = "done"]
              /\ UNCHANGED <<term, sent, out, file>>
         [] kill(p, lpid[p]) = "TypeError" ->
              /\ exc' = [exc EXCEPT ![p] = "TypeError"]
              /\ pc' = [pc EXCEPT ![p] = "done"]
              /\ UNCHANGED <<term, sent, out, file>>
    /\ UNCHANGED <<act, priv, lpid, stale>>
    /\ UNCHANGED prev

\* A terminator that takes ESRCH for "already stopped" instead of raising.
TerminateKillGoneOk(p) ==
    /\ pc[p] = "t_kill"
    /\ CASE kill(p, lpid[p]) = "ok" ->
              /\ term' = term \cup {lpid[p]}
              /\ sent' = [sent EXCEPT ![p] = Append(@, lpid[p])]
              /\ Emit(p, Msg("Stopped", None, "stdout"))
              /\ pc' = [pc EXCEPT ![p] = AfterStop(p)]
              /\ UNCHANGED exc
         [] kill(p, lpid[p]) = "ESRCH" ->
              /\ sent' = [sent EXCEPT ![p] = Append(@, lpid[p])]
              /\ Emit(p, Msg("Stopped", None, "stdout"))
              /\ pc' = [pc EXCEPT ![p] = AfterStop(p)]
              /\ UNCHANGED <<term, exc>>
         [] kill(p, lpid[p]) = "EPERM" ->
              /\ exc' = [exc EXCEPT ![p] = "DaemonRunnerStopError"]
              /\ pc' = [pc EXCEPT ![p] = "done"]
              /\ UNCHANGED <<term, sent, out>>
         [] kill(p, lpid[p]) = "TypeError" ->
              /\ exc' = [exc EXCEPT ![p] = "TypeError"]
              /\ pc' = [pc EXCEPT ![p] = "done"]
              /\ UNCHANGED <<term, sent, out>>
    /\ UNCHANGED <<file, act, priv, lpid, stale>>
    /\ UNCHANGED prev

\* os.kill(pid, signal.SIGTERM); an OSError becomes DaemonRunnerStopError,
\* otherwise _stop emits 'Stopped'.
TerminateKill(p) ==
    /\ pc[p] = "t_kill"
    /\ CASE kill(p, lpid[p]) = "ok" ->
              /\ term' = term \cup {lpid[p]}
              /\ sent' = [sent EXCEPT ![p] = Append(@, lpid[p])]
              /\ Emit(p, Msg("Stopped", None, "stdout"))
              /\ pc' = [pc EXCEPT ![p] = AfterStop(p)]
              /\ UNCHANGED exc
         [] kill(p, lpid[p]) \in {"ESRCH", "EPERM"} ->
              /\ exc' = [exc EXCEPT ![p] = "DaemonRunnerStopError"]
              /\ pc' = [pc EXCEPT ![p] = "done"]
              /\ UNCHANGED <<term, sent, out>>
         [] kill(p, lpid[p]) = "TypeError" ->
              /\ exc' = [exc EXCEPT ![p] = "TypeError"]
              /\ pc' = [pc EXCEPT ![p] = "done"]
              /\ UNCHANGED <<term, sent, out>>
    /\ UNCHANGED <<file, act, priv, lpid, stale>>
    /\ UNCHANGED prev

---------------------------------------------------------------------------
\* _restart: self._stop(); self.pidfile.break_lock(); self._start()
RestartBreak(p) ==
    /\ pc[p] = "r_break"
    /\ file' = break_lock(file)
    /\ pc' = [pc EXCEPT ![p] = "s_read"]
    /\ UNCHANGED <<act, priv, lpid, stale, out, sent, exc, term>>
    /\ UNCHANGED prev

---------------------------------------------------------------------------
\* _show_status

\* if self.pidfile.read_pid() is None: emit 'Not running'
StatusRead(p) ==
    /\ pc[p] = "u_read"
    /\ IF read_pid(file) = None
       THEN /\ Emit(p, Msg("Not running", None, "stdout"))
            /\ pc' = [pc EXCEPT ![p] = "done"]
       ELSE /\ pc' = [pc EXCEPT ![p] = "u_islocked"]
            /\ UNCHANGED out
    /\ UNCHANGED <<file, act, priv, lpid, stale, sent, exc, term>>
    /\ UNCHANGED prev

\* elif self.pidfile.is_locked(): ... else: emit 'Unknown'
StatusIsLocked(p) ==
    /\ pc[p] = "u_islocked"
    /\ IF is_locked(file)
       THEN /\ pc' = [pc EXCEPT ![p] = "u_msg"]
            /\ UNCHANGED out
       ELSE /\ Emit(p, Msg("Unknown", None, "stdout"))
            /\ pc' = [pc EXCEPT ![p] = "done"]
    /\ UNCHANGED <<file, act, priv, lpid, stale, sent, exc, term>>
    /\ UNCHANGED prev

\* A _show_status that breaks the lock when it finds the recorded pid gone.
StatusRunningCleans(p) ==
    /\ pc[p] = "u_msg"
    /\ lpid' = [lpid EXCEPT ![p] = read_pid(file)]
    /\ Emit(p, Msg("Running with pid", read_pid(file), "stdout"))
    /\ file' = IF Alive(read_pid(file)) THEN file ELSE break_lock(file)
    /\ pc' = [pc EXCEPT ![p] = "done"]
    /\ UNCHANGED <<act, priv, stale, sent, exc, term>>
    /\ UNCHANGED prev

\* pid = self.pidfile.read_pid(); emit 'Running with pid: {pid}'
StatusRunning(p) ==
    /\ pc[p] = "u_msg"
    /\ lpid' = [lpid EXCEPT ![p] = read_pid(file)]
    /\ Emit(p, Msg("Running with pid", read_pid(file), "stdout"))
    /\ pc' = [pc EXCEPT ![p] = "done"]
    /\ UNCHANGED <<file, act, priv, stale, sent, exc, term>>
    /\ UNCHANGED prev

---------------------------------------------------------------------------
\* The daemon process, which the controller only reaches through signals.

\* The pending SIGTERM is handled: SystemExit. Once open() has returned (the
\* callback runs), close() runs at exit and releases the lock file, which
\* removes it iff it exists and records this process.
Terminate(p) ==
    /\ pc[p] \in DaemonPcs
    /\ p \in term
    /\ file' = IF pc[p] = "callback" /\ read_pid(file) = p THEN NoFile ELSE file
    /\ Exit(p)
    /\ UNCHANGED <<act, priv, out, sent, exc>>
    /\ UNCHANGED prev

\* The daemon dies without running its exit handlers (SIGKILL, a crash).
Crash(p) ==
    /\ pc[p] \in DaemonPcs
    /\ Exit(p)
    /\ UNCHANGED <<file, act, priv, out, sent, exc>>
    /\ UNCHANGED prev

---------------------------------------------------------------------------
\* Every interleaving of any controllers and daemons.
Next ==
    \E p \in Procs :
        \/ \E a \in Actions, pr \in BOOLEAN : Invoke(p, a, pr)
        \/ Return(p)
        \/ StartStaleRead(p)
        \/ StartStaleKill(p)
        \/ StartBreak(p)
        \/ StartIsLocked(p)
        \/ StartAlreadyRunning(p)
        \/ StartOpen(p)
        \/ Acquire(p)
        \/ AcquireWrite(p)
        \/ AcquireTimeout(p)
        \/ StopRead(p)
        \/ StopStaleRead(p)
        \/ StopStaleKill(p)
        \/ StopBreak(p)
        \/ TerminateRead(p)
        \/ TerminateKill(p)
        \/ RestartBreak(p)
        \/ StatusRead(p)
        \/ StatusIsLocked(p)
        \/ StatusRunning(p)
        \/ Terminate(p)
        \/ Crash(p)

Spec == Init /\ [][Next]_vars

\* Controllers that run nothing but start (no signal is ever sent).
NextStart ==
    \E p \in Procs :
        \/ \E pr \in BOOLEAN : Invoke(p, "start", pr)
        \/ Return(p)
        \/ StartStaleRead(p)
        \/ StartStaleKill(p)
        \/ StartBreak(p)
        \/ StartIsLocked(p)
        \/ StartAlreadyRunning(p)
        \/ StartOpen(p)
        \/ Acquire(p)
        \/ AcquireWrite(p)
        \/ AcquireTimeout(p)
        \/ Crash(p)

SpecStart == Init /\ [][NextStart]_vars

\* No controller but p is inside an action: the others have not been invoked,
\* have returned, or are daemons.
Solo(p) == \A q \in Procs \ {p} : pc[q] \in {"idle", "done", "dead", "callback"}

\* One controller at a time: an action runs from its invocation to its return
\* (or to its callback) with no other controller in between. Daemons still die
\* at any moment. open() then finds the lock file as _start left it, so that
\* acquire never times out.
NextSeq ==
    \E p \in Procs :
        \/ \E a \in Actions, pr \in BOOLEAN : Solo(p) /\ Invoke(p, a, pr)
        \/ Return(p)
        \/ Solo(p) /\ StartStaleRead(p)
        \/ Solo(p) /\ StartStaleKill(p)
        \/ Solo(p) /\ StartBreak(p)
        \/ Solo(p) /\ StartIsLocked(p)
        \/ Solo(p) /\ StartAlreadyRunning(p)
        \/ Solo(p) /\ StartOpen(p)
        \/ Solo(p) /\ Acquire(p)
        \/ Solo(p) /\ AcquireWrite(p)
        \/ Solo(p) /\ StopRead(p)
        \/ Solo(p) /\ StopStaleRead(p)
        \/ Solo(p) /\ StopStaleKill(p)
        \/ Solo(p) /\ StopBreak(p)
        \/ Solo(p) /\ TerminateRead(p)
        \/ Solo(p) /\ TerminateKill(p)
        \/ Solo(p) /\ RestartBreak(p)
        \/ Solo(p) /\ StatusRead(p)
        \/ Solo(p) /\ StatusIsLocked(p)
        \/ Solo(p) /\ StatusRunning(p)
        \/ Terminate(p)
        \/ Crash(p)

SpecSeq == Init /\ [][NextSeq]_vars

\* Every interleaving, with controller objects that are called again.
NextReuse ==
    \/ Next
    \/ \E p \in Procs, a \in Actions : Reuse(p, a)

SpecReuse == Init /\ [][NextReuse]_vars

\* The positions inside _show_status.
StatusPcs == {"u_read", "u_islocked", "u_msg"}

\* No process changes the lock file while a status call is under way.
Quiet == (\A q \in Procs : pc[q] \notin StatusPcs) \/ file' = file

\* Every interleaving in which nothing changes the lock file during a status
\* call (status itself never does).
NextQuiet ==
    \E p \in Procs :
        \/ \E a \in Actions, pr \in BOOLEAN : Invoke(p, a, pr)
        \/ Return(p)
        \/ StartStaleRead(p)
        \/ StartStaleKill(p)
        \/ StartBreak(p) /\ Quiet
        \/ StartIsLocked(p)
        \/ StartAlreadyRunning(p)
        \/ StartOpen(p)
        \/ Acquire(p) /\ Quiet
        \/ AcquireWrite(p) /\ Quiet
        \/ AcquireTimeout(p)
        \/ StopRead(p)
        \/ StopStaleRead(p)
        \/ StopStaleKill(p)
        \/ StopBreak(p) /\ Quiet
        \/ TerminateRead(p)
        \/ TerminateKill(p)
        \/ RestartBreak(p) /\ Quiet
        \/ StatusRead(p)
        \/ StatusIsLocked(p)
        \/ StatusRunning(p)
        \/ Terminate(p) /\ Quiet
        \/ Crash(p)

SpecQuiet == Init /\ [][NextQuiet]_vars

TypeOK ==
    /\ file \in Files
    /\ term \subseteq Procs
    /\ \A p \in Procs : lpid[p] \in Pids \cup {None}

---------------------------------------------------------------------------
\* Vocabulary of the properties.

\* Process p takes the step (every action moves the pc of the process it is of).
Stepped(p) == pc'[p] # pc[p]

\* The lock file records the pid of the live process d: the Running state.
Running(d) == file = PidFile(d) /\ Alive(d)

\* The lock file records the pid n of a process that is gone: StaleLocked.
StaleLocked(n) == file = PidFile(n) /\ ~Alive(n)

\* The processes running the supervised callback.
Daemons == {p \in Procs : pc[p] = "callback"}

AlreadyRunningMsg(n) == Msg("Already running with pid", n, "stderr")
StartingMsg == Msg("Starting", None, "stdout")
StoppedMsg == Msg("Stopped", None, "stdout")
RunningMsg(n) == Msg("Running with pid", n, "stdout")

\* The texts of the messages p has written.
Texts(p) == {out[p][i][1] : i \in 1..Len(out[p])}

---------------------------------------------------------------------------
\* C1. Exclusivity: in every reachable state at most one live process is
\* running the supervised callback.
AtMostOneDaemon == Cardinality(Daemons) <= 1

\* C1, the case the claim singles out: a restart issued while the daemon d it
\* signalled has not exited yet never puts a second daemon next to d.
RestartNoSecondDaemon ==
    \A r \in Procs, d \in Procs :
        ~(/\ r # d
          /\ act[r] = "restart" /\ pc[r] = "callback" /\ sent[r] = <<d>>
          /\ pc[d] = "callback" /\ d \in term)

\* C2. Racing starts: when the controllers run nothing but start, at most one
\* of them ends up invoking its callback, whatever the lock file held at first.
RacingStartsOneCallback ==
    \A p \in Procs, q \in Procs :
        (p # q /\ act[p] = "start" /\ act[q] = "start" /\ pc[p] = "callback")
            => pc[q] # "callback"

\* C3. start in the Running state is a no-op: every step _start takes while
\* the lock file records the live pid d (the pid its probe has read) leaves the
\* lock file alone, signals nothing, raises nothing and leads through the
\* probe and the is_locked check to 'Already running with pid: d' and the
\* return; it never reaches break_lock, 'Starting', open() or the callback.
StartRunningStep(p, d) ==
    /\ file' = file /\ term' = term /\ pc'[d] = pc[d]
    /\ sent'[p] = sent[p] /\ exc'[p] = "none"
    /\ pc[p] = "s_read" => pc'[p] = "s_kill" /\ lpid'[p] = d /\ out'[p] = out[p]
    /\ pc[p] = "s_kill" => pc'[p] = "s_islocked" /\ ~stale'[p] /\ out'[p] = out[p]
    /\ pc[p] = "s_islocked" => pc'[p] = "s_msg" /\ out'[p] = out[p]
    /\ pc[p] = "s_msg" => pc'[p] = "done" /\ out'[p] = Append(out[p], AlreadyRunningMsg(d))

StartRunningNoOp ==
    [][\A p \in Procs, d \in Procs :
          (/\ Stepped(p) /\ Running(d)
           /\ pc[p] \in {"s_read", "s_kill", "s_islocked", "s_msg"}
           /\ pc[p] = "s_kill" => lpid[p] = d)
              => StartRunningStep(p, d)]_vars

StartRunningWitness ==
    \E p \in Procs, d \in Procs :
        /\ Running(d) /\ act[p] = "start" /\ pc[p] = "done"
        /\ out[p] = <<AlreadyRunningMsg(d)>> /\ exc[p] = "none" /\ sent[p] = <<>>

\* C4. stop in the Stopped state is a no-op: the step of _stop that finds
\* read_pid absent (no file, or a file with no pid in it) writes 'Not running'
\* and returns; it raises nothing, signals nothing and leaves the lock file
\* exactly as it was.
StopStoppedNoOp ==
    [][\A p \in Procs :
          (Stepped(p) /\ pc[p] = "p_read0" /\ read_pid(file) = None)
              => /\ file' = file /\ term' = term
                 /\ sent'[p] = sent[p] /\ exc'[p] = "none"
                 /\ out'[p] = Append(out[p], Msg("Not running", None, "stderr"))
                 /\ pc'[p] = AfterStop(p)]_vars

StopStoppedWitness ==
    \E p \in Procs :
        /\ act[p] = "stop" /\ pc[p] = "done"
        /\ file = EmptyFile(OldPid)
        /\ out[p] = <<Msg("Not running", None, "stderr")>>

\* C5. stop in the StaleLocked state: while the lock file records the pid n
\* of a process that is gone, _stop goes through its probe to break_lock
\* without writing or signalling anything; its break_lock leaves read_pid
\* absent and _stop returns with no SIGTERM sent, no 'Stopped' written and
\* nothing raised.
StopStaleStep(p, n) ==
    /\ file' = file /\ term' = term
    /\ sent'[p] = sent[p] /\ exc'[p] = "none" /\ out'[p] = out[p]
    /\ pc[p] = "p_read0" => pc'[p] = "p_read"
    /\ pc[p] = "p_read" => pc'[p] = "p_kill" /\ lpid'[p] = n
    /\ pc[p] = "p_kill" => pc'[p] = "p_break" /\ stale'[p]

StopStaleBreaks ==
    [][\A p \in Procs :
          /\ \A n \in Pids :
                (/\ Stepped(p) /\ StaleLocked(n)
                 /\ pc[p] \in {"p_read0", "p_read", "p_kill"}
                 /\ pc[p] = "p_kill" => lpid[p] = n)
                    => StopStaleStep(p, n)
          /\ (Stepped(p) /\ pc[p] = "p_break")
                => /\ read_pid(file') = None /\ term' = term
                   /\ sent[p] = <<>> /\ sent'[p] = <<>> /\ exc'[p] = "none"
                   /\ out'[p] = out[p] /\ "Stopped" \notin Texts(p)
                   /\ pc'[p] = AfterStop(p)]_vars

StopStaleWitness ==
    \E p \in Procs :
        /\ act[p] = "stop" /\ pc[p] = "done" /\ stale[p] /\ lpid[p] = OldPid
        /\ file = NoFile /\ out[p] = <<>> /\ sent[p] = <<>> /\ exc[p] = "none"

\* C6. stop in the Running state: while the lock file records the live pid d
\* and the caller may signal it, _stop goes through its probe to the
\* terminator, which sends SIGTERM to d, the only signal of the call; _stop
\* then writes 'Stopped' and returns. No step of it changes the lock file or
\* waits for d to exit: d is still recorded, and still alive, when it returns.
StopRunningStep(p, d) ==
    /\ file' = file /\ pc'[d] = pc[d] /\ exc'[p] = "none"
    /\ pc[p] = "p_read0" => pc'[p] = "p_read"
    /\ pc[p] = "p_read" => pc'[p] = "p_kill" /\ lpid'[p] = d
    /\ pc[p] = "p_kill" => pc'[p] = "t_read" /\ ~stale'[p]
    /\ pc[p] = "t_read" => pc'[p] = "t_kill" /\ lpid'[p] = d
    /\ pc[p] # "t_kill" => sent'[p] = sent[p] /\ out'[p] = out[p] /\ term' = term
    /\ pc[p] = "t_kill" =>
          /\ sent[p] = <<>> /\ sent'[p] = <<d>> /\ term' = term \cup {d}
          /\ out'[p] = Append(out[p], StoppedMsg)
          /\ pc'[p] = AfterStop(p)

StopRunningSignalsOnce ==
    [][\A p \in Procs, d \in Procs :
          (/\ Stepped(p) /\ Running(d) /\ priv[p]
           /\ pc[p] \in {"p_read0", "p_read", "p_kill", "t_read", "t_kill"}
           /\ pc[p] \in {"p_kill", "t_kill"} => lpid[p] = d)
              => StopRunningStep(p, d)]_vars

StopRunningWitness ==
    \E p \in Procs, d \in Procs :
        /\ act[p] = "stop" /\ pc[p] = "done" /\ exc[p] = "none"
        /\ sent[p] = <<d>> /\ out[p] = <<StoppedMsg>>
        /\ Running(d) /\ d \in term

\* C7, as claimed: stop raises StopError only when the SIGTERM could not be
\* delivered to a process that exists (such as permission denied), never
\* because the recorded process is gone.
StopErrorNeverForGone ==
    [][\A p \in Procs :
          (Stepped(p) /\ pc[p] = "t_kill" /\ exc'[p] = "DaemonRunnerStopError")
              => Alive(lpid[p])]_vars

\* C7, amended: a pid the staleness probe finds gone is resolved as staleness
\* (on to break_lock, nothing raised); the terminator raises StopError exactly
\* when its SIGTERM is not delivered, be it for lack of permission or because
\* the process has exited since the probe, and leaves the lock file alone.
StopErrorIffNotDelivered ==
    [][\A p \in Procs :
          /\ (Stepped(p) /\ pc[p] = "p_kill" /\ ~Alive(lpid[p]))
                => pc'[p] = "p_break" /\ exc'[p] = "none" /\ file' = file
          /\ (Stepped(p) /\ pc[p] = "t_kill" /\ lpid[p] # None)
                => /\ exc'[p] = "DaemonRunnerStopError"
                      <=> (~Alive(lpid[p]) \/ ~priv[p])
                   /\ exc'[p] = "DaemonRunnerStopError"
                      => pc'[p] = "done" /\ file' = file /\ sent'[p] = sent[p]
                   /\ exc'[p] # "DaemonRunnerStopError"
                      => exc'[p] = "none" /\ sent'[p] = <<lpid[p]>>]_vars

\* The daemon exited between stop's probe (not stale) and its SIGTERM.
StopErrorGoneWitness ==
    \E p \in Procs :
        /\ act[p] = "stop" /\ pc[p] = "done" /\ priv[p]
        /\ exc[p] = "DaemonRunnerStopError"
        /\ ~stale[p] /\ lpid[p] \in Procs /\ ~Alive(lpid[p])

\* C8. start in the StaleLocked state, no other controller active: a _start
\* whose probe has found the recorded pid gone breaks the lock, finds the file
\* absent at its is_locked check, writes 'Starting' and nothing else, opens
\* the daemon context (which acquires the lock without a timeout) and runs
\* the callback; it never writes 'Already running' and never returns.
StartStaleProceeds ==
    \A p \in Procs :
        (act[p] = "start" /\ stale[p])
            => /\ pc[p] \in {"s_break", "s_islocked", "s_open",
                             "d_acquire", "d_write", "callback", "dead"}
               /\ pc[p] = "s_break" => out[p] = <<>>
               /\ pc[p] = "s_islocked" => ~file.exists /\ out[p] = <<>>
               /\ pc[p] \in {"s_open", "d_acquire", "d_write", "callback", "dead"}
                     => out[p] = <<StartingMsg>>
               /\ pc[p] = "d_acquire" => ~file.exists
               /\ pc[p] = "d_write" => file = EmptyFile(p)
               /\ exc[p] = "none" /\ sent[p] = <<>>

StartStaleWitness ==
    \E p \in Procs :
        /\ act[p] = "start" /\ pc[p] = "callback"
        /\ stale[p] /\ lpid[p] = OldPid
        /\ out[p] = <<StartingMsg>> /\ file = PidFile(p)

\* C9. status is read-only and total: no step of _show_status changes the
\* lock file, signals or raises; it writes exactly one message: 'Not running'
\* iff read_pid returns absent, else 'Unknown' iff is_locked does not hold,
\* else 'Running with pid:' and the pid it then reads.
StatusStep(p) ==
    /\ file' = file /\ term' = term
    /\ sent'[p] = <<>> /\ exc'[p] = "none"
    /\ pc[p] = "u_read" =>
          /\ out[p] = <<>>
          /\ IF read_pid(file) = None
             THEN pc'[p] = "done" /\ out'[p] = <<Msg("Not running", None, "stdout")>>
             ELSE pc'[p] = "u_islocked" /\ out'[p] = <<>>
    /\ pc[p] = "u_islocked" =>
          /\ out[p] = <<>>
          /\ IF file.exists
             THEN pc'[p] = "u_msg" /\ out'[p] = <<>>
             ELSE pc'[p] = "done" /\ out'[p] = <<Msg("Unknown", None, "stdout")>>
    /\ pc[p] = "u_msg" =>
          /\ out[p] = <<>>
          /\ pc'[p] = "done" /\ out'[p] = <<RunningMsg(read_pid(file))>>

StatusReadOnlyTotal ==
    [][\A p \in Procs :
          (Stepped(p) /\ pc[p] \in {"u_read", "u_islocked", "u_msg"})
              => StatusStep(p)]_vars

StatusWitness ==
    \E p \in Procs, d \in Procs :
        /\ act[p] = "status" /\ pc[p] = "done"
        /\ Running(d) /\ out[p] = <<RunningMsg(d)>>

\* C10. Whenever status writes 'Running with pid: n', n is the pid recorded
\* in the lock file and the process n is alive.
StatusRunningMeansLive ==
    [][\A p \in Procs :
          (Stepped(p) /\ pc[p] = "u_msg")
              => lpid'[p] = read_pid(file) /\ Alive(lpid'[p])]_vars

\* C11. restart writes exactly one 'Restarting' message and suppresses the
\* messages of its inner stop and start: from its first step on, what a
\* restart has written is that one message and nothing else.
RestartingMsg == Msg("Restarting", None, "stdout")

RestartOneMessage ==
    \A p \in Procs :
        (act[p] = "restart" /\ pc[p] \notin {"idle", "p_read0"})
            => /\ Texts(p) \cap {"Stopped", "Not running", "Starting",
                                 "Already running with pid"} = {}
               /\ out[p] = <<RestartingMsg>>

\* C13. The restart race resolves to a no-op: once a restart has signalled
\* the daemon d, then as long as d is alive and recorded in the lock file no
\* step of that restart removes or overwrites the file, and its _start ends
\* in 'Already running' without reaching open().
RestartKeepsLiveLock ==
    [][\A p \in Procs, d \in Procs :
          (Stepped(p) /\ act[p] = "restart" /\ sent[p] = <<d>> /\ Running(d))
              => file' = file /\ pc'[p] # "s_open"]_vars

\* C14. A terminator failure is fatal to restart: no step of restart up to
\* the SIGTERM changes the lock file, and when the delivery fails the restart
\* ends there with StopError: the lock file is as it was, break_lock and
\* _start are never reached, nothing is written.
RestartStopErrorFatal ==
    /\ [][\A p \in Procs :
            /\ (/\ Stepped(p) /\ act[p] = "restart"
                /\ pc[p] \in {"p_read0", "p_read", "p_kill", "t_read", "t_kill"})
                  => file' = file
            /\ (/\ Stepped(p) /\ act[p] = "restart" /\ pc[p] = "t_kill"
                /\ lpid[p] # None /\ (~Alive(lpid[p]) \/ ~priv[p]))
                  => /\ exc'[p] = "DaemonRunnerStopError" /\ pc'[p] = "done"
                     /\ out'[p] = <<>> /\ sent'[p] = <<>> /\ term' = term
            /\ (Stepped(p) /\ act[p] = "restart" /\ exc[p] # "none")
                  => pc[p] = "done" /\ pc'[p] = "idle"]_vars
    /\ [](\A p \in Procs :
            (act[p] = "restart" /\ exc[p] = "DaemonRunnerStopError")
                => pc[p] = "done" /\ out[p] = <<>> /\ sent[p] = <<>>)

RestartStopErrorWitness ==
    \E p \in Procs, d \in Procs :
        /\ act[p] = "restart" /\ pc[p] = "done"
        /\ exc[p] = "DaemonRunnerStopError"
        /\ lpid[p] = d /\ Running(d) /\ out[p] = <<>>

\* C15. Ordering inside a successful start: 'Starting' is the last thing
\* written before open(); open() detaches, creates the lock file and writes
\* the pid, and only then the callback runs, once. When the file exists at
\* acquire (another holder took it after the is_locked check) the process
\* ends, with LockTimeout, and its callback never runs.
StartOrderStep(p) ==
    /\ pc'[p] = "s_open" =>
          pc[p] = "s_islocked" /\ ~file.exists /\ out'[p] = Append(out[p], StartingMsg)
    /\ pc'[p] = "d_acquire" => pc[p] = "s_open" /\ out'[p] = out[p]
    /\ pc'[p] = "d_write" =>
          pc[p] = "d_acquire" /\ ~file.exists /\ file' = EmptyFile(p) /\ out'[p] = out[p]
    /\ pc'[p] = "callback" => pc[p] = "d_write" /\ exc'[p] = "none" /\ out'[p] = out[p]
    /\ pc[p] = "callback" => pc'[p] = "dead"
    /\ (pc[p] = "d_acquire" /\ file.exists) => pc'[p] = "dead"
    /\ (exc'[p] = "LockTimeout" /\ exc[p] # "LockTimeout") =>
          pc[p] = "d_acquire" /\ file.exists /\ file' = file /\ pc'[p] = "dead"

StartOrder ==
    /\ [][\A p \in Procs :
            /\ Stepped(p) => StartOrderStep(p)
            /\ pc[p] = "dead" => pc'[p] = "dead"]_vars
    /\ [](\A p \in Procs :
            /\ pc[p] \in {"s_open", "d_acquire", "d_write", "callback"}
                  => /\ out[p] # <<>> /\ out[p][Len(out[p])] = StartingMsg
                     /\ exc[p] = "none"
            /\ exc[p] = "LockTimeout" => pc[p] = "dead")

StartTimeoutWitness ==
    \E p \in Procs, q \in Procs :
        /\ act[p] = "start" /\ pc[p] = "dead" /\ exc[p] = "LockTimeout"
        /\ out[p] = <<StartingMsg>>
        /\ q # p /\ Running(q)

\* C16. start and stop never steal a live lock: when _start or _stop executes
\* its break_lock, the pid recorded in the lock file is absent or belongs to
\* no live process.
BreakOnlyStaleLock ==
    [][\A p \in Procs :
          (Stepped(p) /\ pc[p] \in {"s_break", "p_break"})
              => ~Alive(read_pid(file))]_vars

\* C17. The staleness probe: its read records the pid and answers false
\* when none is recorded; its os.kill answers true iff the process read is
\* gone, false when it exists (the signal is delivered, or refused for lack
\* of permission); neither step changes the lock file, leaves a signal
\* pending or affects the probed process.
ProbeStep(p) ==
    /\ file' = file /\ term' = term /\ sent' = sent /\ exc' = exc /\ out' = out
    /\ \A q \in Procs \ {p} : pc'[q] = pc[q]
    /\ pc[p] \in {"s_read", "p_read"} =>
          /\ lpid'[p] = read_pid(file) /\ ~stale'[p]
          /\ read_pid(file) = None =>
                pc'[p] = (IF pc[p] = "s_read" THEN "s_islocked" ELSE "t_read")
          /\ read_pid(file) # None =>
                pc'[p] = (IF pc[p] = "s_read" THEN "s_kill" ELSE "p_kill")
    /\ pc[p] \in {"s_kill", "p_kill"} =>
          /\ lpid[p] # None /\ lpid'[p] = lpid[p]
          /\ stale'[p] <=> ~Alive(lpid[p])
          /\ stale'[p] =>
                pc'[p] = (IF pc[p] = "s_kill" THEN "s_break" ELSE "p_break")
          /\ ~stale'[p] =>
                pc'[p] = (IF pc[p] = "s_kill" THEN "s_islocked" ELSE "t_read")

ProbeStaleIffGone ==
    [][\A p \in Procs :
          (Stepped(p) /\ pc[p] \in {"s_read", "s_kill", "p_read", "p_kill"})
              => ProbeStep(p)]_vars

\* The probe of a live process the caller may not signal: not stale.
ProbeWitness ==
    \E p \in Procs :
        /\ ~priv[p] /\ pc[p] = "t_read" /\ ~stale[p]
        /\ Alive(lpid[p]) /\ lpid[p] \notin term

\* C18. A lock file that exists but holds no pid is treated as absent by
\* every action: status and stop write 'Not running', and start goes on to
\* 'Starting' and open() instead of 'Already running'.
EmptyFileIsAbsent ==
    [][\A p \in Procs :
          (Stepped(p) /\ file.exists /\ file.content = None)
              => /\ pc[p] = "u_read" =>
                       out'[p] = Append(out[p], Msg("Not running", None, "stdout"))
                 /\ pc[p] = "p_read0" =>
                       out'[p] = Append(out[p], Msg("Not running", None, "stderr"))
                 /\ pc[p] = "s_islocked" =>
                       pc'[p] = "s_open" /\ out'[p] = Append(out[p], StartingMsg)
                 /\ pc'[p] # "s_msg"]_vars

\* C19. stop sends SIGTERM only to the pid it has just probed as live: the
\* pid the terminator reads is the pid the preceding probe read, and it is
\* never absent.
TerminatorGetsProbedPid ==
    [][\A p \in Procs :
          (Stepped(p) /\ pc[p] = "t_read")
              => lpid'[p] = lpid[p] /\ lpid'[p] # None]_vars

\* C20. When no process changes the lock file during a status call, status
\* never writes 'Unknown' (a recorded pid implies is_locked), and the pid in
\* 'Running with pid' is the one recorded in the lock file.
StatusNeverUnknown ==
    /\ [](\A p \in Procs :
            /\ pc[p] \in {"u_islocked", "u_msg"} => read_pid(file) # None
            /\ act[p] = "status" => "Unknown" \notin Texts(p))
    /\ [][\A p \in Procs :
            (Stepped(p) /\ pc[p] \in StatusPcs /\ pc'[p] = "done")
                => \/ /\ read_pid(file) = None
                      /\ out'[p] = <<Msg("Not running", None, "stdout")>>
                   \/ /\ read_pid(file) # None
                      /\ out'[p] = <<RunningMsg(read_pid(file))>>]_vars

\* status of a lock file left by a daemon that is gone: 'Running', not 'Unknown'.
StatusQuietWitness ==
    \E p \in Procs :
        /\ act[p] = "status" /\ pc[p] = "done"
        /\ file = PidFile(OldPid) /\ out[p] = <<RunningMsg(OldPid)>>

\* With a process changing the lock file in between, status does write 'Unknown'.
StatusUnknownReached ==
    \E p \in Procs :
        act[p] = "status" /\ pc[p] = "done" /\ "Unknown" \in Texts(p)

\* The step of p is one at which the code calls _emit_message.
EmitStep(p) ==
    \/ pc[p] \in StatusPcs /\ pc'[p] = "done"
    \/ pc[p] = "p_read0" /\ pc'[p] = "done"
    \/ pc[p] = "t_kill" /\ pc'[p] = "done" /\ exc'[p] = "none"
    \/ pc[p] = "s_islocked" /\ pc'[p] = "s_open"
    \/ pc[p] = "s_msg" /\ pc'[p] = "done"

\* C12. After a restart has finished on a controller, normally or with an
\* exception (DaemonRunnerStopError included), every later status, stop or
\* start call on the same controller writes its messages: each step that
\* calls _emit_message appends one message, and a finished status has written
\* exactly one.
AfterRestartUnsuppressed ==
    /\ [][\A p \in Procs :
            (/\ prev[p][1] = "restart"
             /\ act[p] \in {"status", "stop", "start"}
             /\ EmitStep(p))
                => /\ Len(out'[p]) = Len(out[p]) + 1
                   /\ SubSeq(out'[p], 1, Len(out[p])) = out[p]]_vars
    /\ [](\A p \in Procs :
            (prev[p][1] = "restart" /\ act[p] = "status" /\ pc[p] = "done")
                => Len(out[p]) = 1)

\* A restart ended by DaemonRunnerStopError, then a status on the same
\* controller that has written its line.
AfterRestartWitness ==
    \E p \in Procs :
        /\ prev[p] = <<"restart", "DaemonRunnerStopError">>
        /\ act[p] = "status" /\ pc[p] = "done"
        /\ Len(out[p]) = 1

\* A restart that returned normally, then a stop on the same controller that
\* has written 'Stopped'.
AfterRestartReturnedReached ==
    \E p \in Procs :
        /\ prev[p] = <<"restart", "none">>
        /\ act[p] = "stop" /\ pc[p] = "done"
        /\ out[p] = <<StoppedMsg>>

====
